---- MODULE Spec2Model ----
(***************************************************************************)
(* Model of the move-shot suite: the capture loop (move-shot.js), the      *)
(* image listing, the transcriber and the text assembler (ocr.js), and the *)
(* two document assemblers (pdf.js, save-once and incremental-save).       *)
(*                                                                         *)
(* JavaScript strings are sequences of one-character strings, so that      *)
(* filtering, parsing, trimming and concatenation are computed.            *)
(***************************************************************************)
EXTENDS Integers, Sequences, FiniteSets, TLC

VARIABLES
    \* ---- the screenshots directory and one call of getScreenshotFiles
    dirState,       \* "ok" | "ENOENT" | "EACCES": what fs.readdir meets
    allFiles,       \* the entries of the directory, in enumeration order
    listed,         \* [called, result]: the outcome of getScreenshotFiles
    \* ---- generateMarkdownFile (ocr.js run standalone)
    mdPc,           \* position in generateMarkdownFile
    mdFiles,        \* screenshotFiles
    mdIdx,          \* number of pages of the for-of loop already completed
    mdText,         \* transcribedText of the page being processed
    successfulProcessing,
    mdFile,         \* ocr.md on disk: [exists, content]
    mdLog,          \* the calls of performOcrOnImage made so far, in order
    mdRun,          \* 1 in the first run of ocr.js, 2 in a run started after it
    mdFirst,        \* how the first run ended: [pc, file, log]
    \* ---- generateSearchablePdf (both variants)
    pdfVariant,     \* "once" (save after the loop) | "incremental"
    pdfPc,
    pdfFiles,       \* screenshotFiles
    pdfIdx,         \* number of loop iterations already completed
    ocrText,        \* ocrText of the iteration in progress
    pdfDoc,         \* pages of the in-memory PDFDocument
    pagesAdded,
    pdfFile,        \* out.pdf on disk: [exists, pages]
    pdfLog,         \* per finished iteration: what happened to its image
    saveLog,        \* the incremental saves so far: [idx, ok, pages]
    \* ---- move-shot.js
    pc,             \* the await the main function is suspended at
    i,              \* loop variable of the capture loop
    keepRunning,
    shuttingDown,
    browser,        \* "null" | "connected" | "disconnected" | "closed"
    pageClosed,     \* page.isClosed()
    exitCode,       \* process.exitCode: 0 stands for undefined
    exited,         \* the code given to process.exit, NotExited before
    written,        \* screenshot files written by this run, in order
    mousePos,       \* window.currentMouseX/Y inside the page
    latestMousePos, \* askQuestion's latestMousePos
    captured,       \* <<capturedX, capturedY>>
    sigintAt,       \* [k, at]: the first SIGINT that arrived during the loop came
                    \* after k completed iterations, at the await named at
    env,            \* process.env: TARGET_URL and DELAY_MS
    resources,      \* what the run has opened: sessionDir, browser, outputDir
    ops,            \* the calls the loop has made, in order
    caught,         \* the error the catch of line 219 got, and shuttingDown then
    brokeAt,        \* where the loop was when the session first became unusable
    pollInFlight,   \* a page.evaluate of the polling interval is pending
    confirmation    \* the polled position at ENTER, the pointer at confirmation

listVars == <<dirState, allFiles, listed>>
mdVars == <<mdPc, mdFiles, mdIdx, mdText, successfulProcessing, mdFile, mdLog,
            mdRun, mdFirst>>
pdfVars == <<pdfVariant, pdfPc, pdfFiles, pdfIdx, ocrText, pdfDoc, pagesAdded,
             pdfFile, pdfLog, saveLog>>
capVars == <<pc, i, keepRunning, shuttingDown, browser, pageClosed, exitCode,
             exited, written, mousePos, latestMousePos, captured, sigintAt,
             env, resources, ops, caught, brokeAt, pollInFlight, confirmation>>
vars == <<listVars, mdVars, pdfVars, capVars>>

-----------------------------------------------------------------------------
(* Bounds of the model *)

\* most entries a modelled directory holds
MaxDirEntries == 3
\* most entries of the directory an assembler run lists
MaxPages == 3
\* most iterations of the capture loop that are explored
MaxIter == 3

-----------------------------------------------------------------------------
(* Strings *)

NotExited == -1

RECURSIVE Concat(_)
\* the concatenation of a sequence of strings
Concat(ss) == IF ss = <<>> THEN <<>> ELSE Head(ss) \o Concat(Tail(ss))

\* String.prototype.toLowerCase on one character
LowerChar(c) ==
    CASE c = "P" -> "p" [] c = "N" -> "n" [] c = "G" -> "g"
      [] c = "A" -> "a" [] c = "B" -> "b" [] c = "C" -> "c"
      [] c = "H" -> "h" [] c = "W" -> "w" [] OTHER -> c

toLowerCase(s) == [k \in 1..Len(s) |-> LowerChar(s[k])]

endsWith(s, suffix) ==
    /\ Len(s) >= Len(suffix)
    /\ SubSeq(s, Len(s) - Len(suffix) + 1, Len(s)) = suffix

startsWith(s, prefix) ==
    /\ Len(s) >= Len(prefix)
    /\ SubSeq(s, 1, Len(prefix)) = prefix

Digits == {"0", "1", "2", "3", "4", "5", "6", "7", "8", "9"}

DigitValue(c) ==
    CASE c = "0" -> 0 [] c = "1" -> 1 [] c = "2" -> 2 [] c = "3" -> 3
      [] c = "4" -> 4 [] c = "5" -> 5 [] c = "6" -> 6 [] c = "7" -> 7
      [] c = "8" -> 8 [] c = "9" -> 9

\* a.match(/^(\d+)/)?.[1]: the longest run of digits the name starts with
LeadingDigits(s) ==
    LET n == CHOOSE n \in 0..Len(s) :
                 /\ \A k \in 1..n : s[k] \in Digits
                 /\ (n < Len(s) => s[n + 1] \notin Digits)
    IN SubSeq(s, 1, n)

RECURSIVE parseInt10(_)
\* parseInt(digits, 10) on a run of decimal digits
parseInt10(ds) ==
    IF ds = <<>> THEN 0
    ELSE 10 * parseInt10(SubSeq(ds, 1, Len(ds) - 1)) + DigitValue(ds[Len(ds)])

\* parseInt(a.match(/^(\d+)/)?.[1] || "0", 10)
LeadingInt(s) ==
    LET ds == LeadingDigits(s)
    IN parseInt10(IF ds = <<>> THEN <<"0">> ELSE ds)

\* UTF-16 order of the characters that occur in the modelled names
CharCode(c) ==
    CASE c = "." -> 46
      [] c \in Digits -> 48 + DigitValue(c)
      [] c = "G" -> 71 [] c = "N" -> 78 [] c = "P" -> 80
      [] c = "a" -> 97 [] c = "b" -> 98 [] c = "g" -> 103 [] c = "k" -> 107
      [] c = "n" -> 110 [] c = "p" -> 112 [] c = "t" -> 116 [] c = "x" -> 120
      [] OTHER -> 0

RECURSIVE LexCompare(_, _)
\* the order of Array.prototype.sort without a comparator
LexCompare(a, b) ==
    IF a = <<>> THEN (IF b = <<>> THEN 0 ELSE -1)
    ELSE IF b = <<>> THEN 1
    ELSE IF CharCode(Head(a)) # CharCode(Head(b))
         THEN CharCode(Head(a)) - CharCode(Head(b))
         ELSE LexCompare(Tail(a), Tail(b))

-----------------------------------------------------------------------------
(* getScreenshotFiles *)

PngExt == <<".", "p", "n", "g">>

\* a comparator that forgets the numeric prefix
numericalSort_lexical(a, b) == LexCompare(a, b)

numericalSort(a, b) == LeadingInt(a) - LeadingInt(b)

RECURSIVE Insert(_, _)
\* x put behind every element of the sorted list that does not compare greater
Insert(x, sorted) ==
    IF sorted = <<>> THEN <<x>>
    ELSE IF numericalSort(Head(sorted), x) <= 0
         THEN <<Head(sorted)>> \o Insert(x, Tail(sorted))
         ELSE <<x>> \o sorted

RECURSIVE SortFiles(_)
\* Array.prototype.sort(numericalSort): a stable sort
SortFiles(files) ==
    IF files = <<>> THEN <<>>
    ELSE Insert(files[Len(files)], SortFiles(SubSeq(files, 1, Len(files) - 1)))

\* file => file.toLowerCase().endsWith(".png")
IsPng(file) == endsWith(toLowerCase(file), PngExt)

FilterPng(files) == SelectSeq(files, IsPng)

EmptyError == [code |-> "none", message |-> "No .png files found in the screenshots directory."]
NotFoundError == [code |-> "none", message |-> "Screenshots directory not found"]
ReaddirError(c) == [code |-> c, message |-> "readdir failed"]

\* the catch of getScreenshotFiles wraps every error as the not-found error
ListCatch_always_not_found(error) == [ok |-> FALSE, error |-> NotFoundError]

\* the catch block of getScreenshotFiles
ListCatch(error) ==
    IF error.code = "ENOENT"
    THEN [ok |-> FALSE, error |-> NotFoundError]
    ELSE [ok |-> FALSE, error |-> error]

getScreenshotFiles(state, entries) ==
    IF state # "ok" THEN ListCatch(ReaddirError(state))
    ELSE LET screenshotFiles == SortFiles(FilterPng(entries))
         IN IF Len(screenshotFiles) = 0 THEN ListCatch(EmptyError)
            ELSE [ok |-> TRUE, files |-> screenshotFiles]

-----------------------------------------------------------------------------
(* Directories *)

\* an assembler that goes on after a failed listing, with no pages
ListingFailed_ignored(result) == FALSE

\* the catch around the call of getScreenshotFiles (ocr.js lines 127-130,
\* pdf.js lines 24-29): the listing threw
ListingFailed(result) == ~result.ok

\* screenshotFiles after the try block of the listing
ListedFiles(result) == IF result.ok THEN result.files ELSE <<>>

NamePool ==
    { <<"1", ".", "p", "n", "g">>,
      <<"2", ".", "p", "n", "g">>,
      <<"1", "0", ".", "p", "n", "g">>,
      <<"0", "2", ".", "p", "n", "g">>,
      <<"3", ".", "P", "N", "G">>,
      <<"a", ".", "p", "n", "g">>,
      <<"2", ".", "t", "x", "t">>,
      <<"9", ".", "p", "n", "g", ".", "b", "a", "k">> }

\* the names an assembler run is explored with
PagePool ==
    { <<"1", ".", "p", "n", "g">>,
      <<"2", ".", "p", "n", "g">>,
      <<"1", "0", ".", "p", "n", "g">>,
      <<"2", ".", "t", "x", "t">> }

Range(s) == {s[k] : k \in 1..Len(s)}

\* a directory holds each name once; readdir may enumerate in any order
Directories(pool, max) ==
    UNION { {s \in [1..n -> pool] : Cardinality(Range(s)) = n} : n \in 0..max }

DirStates == {"ok", "ENOENT", "EACCES"}

-----------------------------------------------------------------------------
(* performOcrOnImage *)

Whitespace == {" ", "\n"}

RECURSIVE trimStart(_)
trimStart(s) ==
    IF s # <<>> /\ Head(s) \in Whitespace THEN trimStart(Tail(s)) ELSE s

RECURSIVE trimEnd(_)
trimEnd(s) ==
    IF s # <<>> /\ s[Len(s)] \in Whitespace
    THEN trimEnd(SubSeq(s, 1, Len(s) - 1)) ELSE s

\* String.prototype.trim
trim(s) == trimEnd(trimStart(s))

\* the backquote character is written "BQ"
Fence == <<"BQ", "BQ", "BQ">>
MarkdownWord == <<"m", "a", "r", "k", "d", "o", "w", "n">>

Drop(s, n) == SubSeq(s, n + 1, Len(s))

\* s.replace(/^FENCE(markdown)?\s*/, ""), FENCE being three backquotes
StripLeadingFence(s) ==
    IF ~startsWith(s, Fence) THEN s
    ELSE LET r1 == Drop(s, Len(Fence))
             r2 == IF startsWith(r1, MarkdownWord) THEN Drop(r1, Len(MarkdownWord))
                   ELSE r1
         IN trimStart(r2)

\* s.replace(/FENCE\s*$/, ""): the leftmost fence that only whitespace follows
StripTrailingFence(s) ==
    LET at == {k \in 1..Len(s) :
                 /\ k + 2 <= Len(s)
                 /\ SubSeq(s, k, k + 2) = Fence
                 /\ \A j \in (k + 3)..Len(s) : s[j] \in Whitespace}
    IN IF at = {} THEN s
       ELSE LET k == CHOOSE k \in at : \A j \in at : k <= j
            IN SubSeq(s, 1, k - 1)

\* the value performOcrOnImage resolves to: null, or a string
NullResult == [isNull |-> TRUE, text |-> <<>>]
TextResult(t) == [isNull |-> FALSE, text |-> t]

\* what the image read and the inference request of one call come to:
\*   readError  fs.readFile rejects (unreadable image)
\*   chatError  ollama.chat rejects (unreachable, timeout, undecodable image)
\*   response   ollama.chat resolves; hasContent tells whether
\*              response.message.content is there, content is its value
OcrFailures == { [kind |-> k, hasContent |-> FALSE, content |-> <<>>] :
                   k \in {"readError", "chatError"} }

ContentPool ==
    { <<"H", "e", "l", "l", "o">>,
      <<" ", "W", "o", "r", "l", "d", "\n">>,
      <<" ", " ", "\n">>,
      <<"BQ", "BQ", "BQ", "m", "a", "r", "k", "d", "o", "w", "n", "\n", "A", "\n", "BQ", "BQ", "BQ">>,
      <<>> }

OcrResponses ==
    { [kind |-> "response", hasContent |-> FALSE, content |-> <<>>] }
    \cup { [kind |-> "response", hasContent |-> TRUE, content |-> c] : c \in ContentPool }

OcrOutcomes == OcrFailures \cup OcrResponses

\* a transcriber whose catch re-throws instead of returning null
performOcrOnImage_rethrows(outcome) ==
    IF outcome.kind \in {"readError", "chatError"}
    THEN [threw |-> TRUE, value |-> NullResult]
    ELSE IF outcome.hasContent /\ outcome.content # <<>>
         THEN [threw |-> FALSE,
               value |-> TextResult(StripTrailingFence(StripLeadingFence(trim(outcome.content))))]
         ELSE [threw |-> FALSE, value |-> NullResult]

\* [threw, value]: whether the call rejects, and what it resolves to otherwise
performOcrOnImage(outcome) ==
    IF outcome.kind \in {"readError", "chatError"}
    THEN [threw |-> FALSE, value |-> NullResult]
    ELSE IF outcome.hasContent /\ outcome.content # <<>>
         THEN [threw |-> FALSE,
               value |-> TextResult(StripTrailingFence(StripLeadingFence(trim(outcome.content))))]
         ELSE [threw |-> FALSE, value |-> NullResult]

-----------------------------------------------------------------------------
(* generateMarkdownFile *)

MdHeader ==
    <<"#", " ", "T", "r", "a", "n", "s", "c", "r", "i", "p", "t", "i", "o", "n",
      " ", "R", "e", "s", "u", "l", "t", "s", "\n", "\n">>
BlankLine == <<"\n", "\n">>
MarkerOpen ==
    <<"\n", "\n", "[", "O", "C", "R", " ", "W", "a", "r", "n", "i", "n", "g", "/",
      "E", "r", "r", "o", "r", " ", "f", "o", "r", " ">>
MarkerClose == <<"]", "\n", "\n">>

\* an assembler that drops the page whose transcription failed
outputChunk_skips_null(filename, transcribedText) ==
    IF ~transcribedText.isNull THEN transcribedText.text \o BlankLine
    ELSE <<>>

\* lines 141-146: the chunk appended for one page
outputChunk(filename, transcribedText) ==
    IF ~transcribedText.isNull THEN transcribedText.text \o BlankLine
    ELSE MarkerOpen \o filename \o MarkerClose

\* a write that keeps what the file holds and puts data behind it
writeFile_appends(file, data) ==
    [exists |-> TRUE, content |-> (IF file.exists THEN file.content ELSE <<>>) \o data]

\* fs.writeFile: the file holds exactly data afterwards
writeFile(file, data) == [exists |-> TRUE, content |-> data]

\* an append that replaces the file
appendFile_overwrites(file, data) == [exists |-> TRUE, content |-> data]

\* fs.appendFile: data goes behind what the file holds (created when absent)
appendFile(file, data) ==
    [exists |-> TRUE, content |-> (IF file.exists THEN file.content ELSE <<>>) \o data]

Absent == [exists |-> FALSE, content |-> <<>>]
\* what an earlier run may have left in ocr.md
OldMd == [exists |-> TRUE, content |-> <<"o", "l", "d">>]

\* no run of ocr.js has ended yet
NoFirst == [pc |-> "none"]

MdIdle ==
    /\ mdPc = "idle" /\ mdFiles = <<>> /\ mdIdx = 0 /\ mdText = NullResult
    /\ successfulProcessing = FALSE /\ mdFile = Absent /\ mdLog = <<>>
    /\ mdRun = 1 /\ mdFirst = NoFirst

MdInit ==
    /\ mdPc = "list" /\ mdFiles = <<>> /\ mdIdx = 0 /\ mdText = NullResult
    /\ successfulProcessing = FALSE /\ mdFile \in {Absent, OldMd} /\ mdLog = <<>>
    /\ mdRun = 1 /\ mdFirst = NoFirst

\* lines 124-130: list the pages, stop when the listing fails
MdList ==
    /\ mdPc = "list"
    /\ LET r == getScreenshotFiles(dirState, allFiles)
       IN /\ listed' = [called |-> TRUE, result |-> r]
          /\ IF ~ListingFailed(r) THEN mdFiles' = ListedFiles(r) /\ mdPc' = "init"
             ELSE mdFiles' = <<>> /\ mdPc' = "returned"
    /\ UNCHANGED <<dirState, allFiles, mdIdx, mdText, successfulProcessing, mdFile, mdLog>>
    /\ UNCHANGED <<mdRun, mdFirst, pdfVars, capVars>>

\* line 134: fs.writeFile of the header; a rejection goes to the catch of line 165
MdWriteHeader ==
    /\ mdPc = "init"
    /\ \E ok \in BOOLEAN :
         IF ok THEN mdFile' = writeFile(mdFile, MdHeader) /\ mdPc' = "loop"
         ELSE mdFile' = mdFile /\ mdPc' = "caught"
    /\ UNCHANGED <<listVars, mdFiles, mdIdx, mdText, successfulProcessing, mdLog>>
    /\ UNCHANGED <<mdRun, mdFirst, pdfVars, capVars>>

\* what the inference service may answer for a page: anything in a first
\* run; in a second run the service is a deterministic one and answers for a
\* page it has seen what it answered then
Answers(filename) ==
    IF mdRun = 2 /\ \E k \in 1..Len(mdFirst.log) : mdFirst.log[k].file = filename
    THEN {mdFirst.log[k].outcome :
            k \in {j \in 1..Len(mdFirst.log) : mdFirst.log[j].file = filename}}
    ELSE OcrOutcomes

\* line 138: one call of performOcrOnImage, and lines 141-146
MdOcr ==
    /\ mdPc = "loop"
    /\ mdIdx < Len(mdFiles)
    /\ \E outcome \in Answers(mdFiles[mdIdx + 1]) :
         LET r == performOcrOnImage(outcome)
         IN /\ mdLog' = Append(mdLog, [file |-> mdFiles[mdIdx + 1], outcome |-> outcome,
                                       threw |-> r.threw, value |-> r.value])
            /\ IF r.threw
               THEN /\ mdPc' = "caught"
                    /\ UNCHANGED <<mdText, successfulProcessing>>
               ELSE /\ mdPc' = "append"
                    /\ mdText' = r.value
                    /\ successfulProcessing' = (successfulProcessing \/ ~r.value.isNull)
    /\ UNCHANGED <<listVars, mdFiles, mdIdx, mdFile>>
    /\ UNCHANGED <<mdRun, mdFirst, pdfVars, capVars>>

\* line 147: fs.appendFile of the chunk; a rejection goes to the catch of line 165
MdAppend ==
    /\ mdPc = "append"
    /\ \E ok \in BOOLEAN :
         IF ok
         THEN /\ mdFile' = appendFile(mdFile, outputChunk(mdFiles[mdIdx + 1], mdText))
              /\ mdIdx' = mdIdx + 1
              /\ mdPc' = "loop"
         ELSE /\ mdPc' = "caught"
              /\ UNCHANGED <<mdFile, mdIdx>>
    /\ UNCHANGED <<listVars, mdFiles, mdText, successfulProcessing, mdLog>>
    /\ UNCHANGED <<mdRun, mdFirst, pdfVars, capVars>>

\* lines 150-163: the loop is over; the preview only reads the file
MdFinish ==
    /\ mdPc = "loop"
    /\ mdIdx = Len(mdFiles)
    /\ mdPc' = "completed"
    /\ UNCHANGED <<listVars, mdFiles, mdIdx, mdText, successfulProcessing, mdFile, mdLog>>
    /\ UNCHANGED <<mdRun, mdFirst, pdfVars, capVars>>

\* ocr.js is run again over the same directory after a run that went over the
\* pages or was cut short by a failed write: every variable of the script
\* starts afresh, ocr.md is what the first run left
MdRerun ==
    /\ mdRun = 1
    /\ mdPc \in {"completed", "caught"}
    /\ mdRun' = 2
    /\ mdFirst' = [pc |-> mdPc, file |-> mdFile, log |-> mdLog]
    /\ mdPc' = "list" /\ mdFiles' = <<>> /\ mdIdx' = 0 /\ mdText' = NullResult
    /\ successfulProcessing' = FALSE /\ mdLog' = <<>>
    /\ UNCHANGED <<listVars, mdFile>>
    /\ UNCHANGED <<pdfVars, capVars>>

MdNext == MdList \/ MdWriteHeader \/ MdOcr \/ MdAppend \/ MdFinish

-----------------------------------------------------------------------------
(* generateSearchablePdf, pdf.js: the save-once and the incremental variant *)

NoLayer == [has |-> FALSE, text |-> <<>>]
TextLayer(t) == [has |-> TRUE, text |-> t]

AbsentPdf == [exists |-> FALSE, pages |-> <<>>]
\* what an earlier run may have left in out.pdf
OldPdf == [exists |-> TRUE, pages |-> << [image |-> <<"o", "l", "d">>, layer |-> NoLayer] >>]

\* a guard that only asks for a transcription, blank or not
HasText_any_string(text) == ~text.isNull

\* ocrText && ocrText.trim().length > 0
HasText(text) == ~text.isNull /\ text.text # <<>> /\ Len(trim(text.text)) > 0

\* what reading, embedding and drawing one image come to:
\*   readError   fs.readFile of the image rejects
\*   embedError  pdfDoc.embedPng rejects (the bytes are no PNG)
\*   drawError   page.drawText throws (text the font cannot encode)
BuildOutcomes == {"ok", "readError", "embedError", "drawError"}

\* an assembler that adds no page when the transcription failed
AddsPage_needs_text(build, text) == build \notin {"readError", "embedError"} /\ ~text.isNull

\* lines 45-51 (44-49): the page is added unless the read or the embed threw
AddsPage(build, text) == build \notin {"readError", "embedError"}

\* an incremental variant that saves only every second page
SavesHere_every_other(variant, added) == variant = "incremental" /\ added % 2 = 0

\* the incremental variant saves at the end of the try block of every iteration
SavesHere(variant, added) == variant = "incremental"

\* an assembler that gives up at the first save that fails
AfterSave_failure_ends_run(ok) == IF ok THEN "loop" ELSE "done"

\* part_003 lines 73-82: after the save, or after the catch that reports its
\* failure, the for loop goes on with the next file
AfterSave(ok) == "loop"

PdfIdle ==
    /\ pdfVariant = "once" /\ pdfPc = "idle" /\ pdfFiles = <<>> /\ pdfIdx = 0
    /\ ocrText = NullResult /\ pdfDoc = <<>> /\ pagesAdded = 0
    /\ pdfFile = AbsentPdf /\ pdfLog = <<>> /\ saveLog = <<>>

PdfInit ==
    /\ pdfVariant \in {"once", "incremental"}
    /\ pdfPc = "list" /\ pdfFiles = <<>> /\ pdfIdx = 0
    /\ ocrText = NullResult /\ pdfDoc = <<>> /\ pagesAdded = 0
    /\ pdfFile \in {AbsentPdf, OldPdf} /\ pdfLog = <<>> /\ saveLog = <<>>

\* lines 21-32 (24-35): list the pages, stop when the listing fails
PdfList ==
    /\ pdfPc = "list"
    /\ LET r == getScreenshotFiles(dirState, allFiles)
       IN /\ listed' = [called |-> TRUE, result |-> r]
          /\ IF ~ListingFailed(r) THEN pdfFiles' = ListedFiles(r) /\ pdfPc' = "loop"
             ELSE pdfFiles' = <<>> /\ pdfPc' = "returned"
    /\ UNCHANGED <<dirState, allFiles, pdfVariant, pdfIdx, ocrText, pdfDoc,
                   pagesAdded, pdfFile, pdfLog>>
    /\ UNCHANGED <<saveLog, mdVars, capVars>>

\* line 42 (44): the transcription of the next image
PdfOcr ==
    /\ pdfPc = "loop"
    /\ pdfIdx < Len(pdfFiles)
    /\ \E outcome \in OcrOutcomes :
         LET r == performOcrOnImage(outcome)
         IN IF r.threw
            THEN \* the catch of the iteration: on to the next file
                 /\ pdfLog' = Append(pdfLog, [file |-> pdfFiles[pdfIdx + 1], value |-> r.value,
                                              page |-> 0, threw |-> "ocr"])
                 /\ pdfIdx' = pdfIdx + 1
                 /\ UNCHANGED <<pdfPc, ocrText>>
            ELSE /\ ocrText' = r.value
                 /\ pdfPc' = "page"
                 /\ UNCHANGED <<pdfLog, pdfIdx>>
    /\ UNCHANGED <<listVars, pdfVariant, pdfFiles, pdfDoc, pagesAdded, pdfFile>>
    /\ UNCHANGED <<saveLog, mdVars, capVars>>

\* lines 45-78 (45-71): read and embed the image, add the page, draw the image
\* and, when there is text, the text layer; any throw ends the iteration
PdfAddPage ==
    /\ pdfPc = "page"
    /\ \E build \in BuildOutcomes :
         LET filename == pdfFiles[pdfIdx + 1]
             drawn == HasText(ocrText) /\ build # "drawError"
             threw == IF build \in {"readError", "embedError"} THEN "image"
                      ELSE IF HasText(ocrText) /\ build = "drawError" THEN "draw"
                      ELSE "none"
         IN IF ~AddsPage(build, ocrText)
            THEN /\ pdfLog' = Append(pdfLog, [file |-> filename, value |-> ocrText,
                                              page |-> 0, threw |-> threw])
                 /\ pdfIdx' = pdfIdx + 1
                 /\ pdfPc' = "loop"
                 /\ UNCHANGED <<pdfDoc, pagesAdded>>
            ELSE /\ pdfDoc' = Append(pdfDoc,
                        [image |-> filename,
                         layer |-> IF drawn THEN TextLayer(ocrText.text) ELSE NoLayer])
                 /\ pagesAdded' = pagesAdded + 1
                 /\ pdfLog' = Append(pdfLog, [file |-> filename, value |-> ocrText,
                                              page |-> Len(pdfDoc) + 1, threw |-> threw])
                 /\ IF threw = "none" /\ SavesHere(pdfVariant, pagesAdded + 1)
                    THEN pdfPc' = "save" /\ pdfIdx' = pdfIdx
                    ELSE pdfPc' = "loop" /\ pdfIdx' = pdfIdx + 1
    /\ UNCHANGED <<listVars, pdfVariant, pdfFiles, ocrText, pdfFile>>
    /\ UNCHANGED <<saveLog, mdVars, capVars>>

\* part_003 lines 74-75: the incremental save; a throw is caught by the
\* catch of the iteration and the loop goes on
PdfSave ==
    /\ pdfPc = "save"
    /\ \E ok \in BOOLEAN :
         /\ pdfFile' = IF ok THEN [exists |-> TRUE, pages |-> pdfDoc] ELSE pdfFile
         /\ saveLog' = Append(saveLog, [idx |-> pdfIdx + 1, ok |-> ok,
                                        pages |-> Len(pdfDoc)])
         /\ IF AfterSave(ok) = "loop"
            THEN pdfIdx' = pdfIdx + 1 /\ pdfPc' = "loop"
            ELSE pdfIdx' = pdfIdx /\ pdfPc' = "done"
    /\ UNCHANGED <<listVars, pdfVariant, pdfFiles, ocrText, pdfDoc, pagesAdded, pdfLog>>
    /\ UNCHANGED <<mdVars, capVars>>

\* part_002 lines 87-90, part_003 lines 84-91: the loop is over
PdfEndLoop ==
    /\ pdfPc = "loop"
    /\ pdfIdx = Len(pdfFiles)
    /\ pdfPc' = IF pdfVariant = "once" /\ pagesAdded # 0 THEN "finalsave" ELSE "done"
    /\ UNCHANGED <<listVars, pdfVariant, pdfFiles, pdfIdx, ocrText, pdfDoc, pagesAdded,
                   pdfFile, pdfLog>>
    /\ UNCHANGED <<saveLog, mdVars, capVars>>

\* part_002 lines 92-100: the one save of the save-once variant
PdfFinalSave ==
    /\ pdfPc = "finalsave"
    /\ \E ok \in BOOLEAN :
         pdfFile' = IF ok THEN [exists |-> TRUE, pages |-> pdfDoc] ELSE pdfFile
    /\ pdfPc' = "done"
    /\ UNCHANGED <<listVars, pdfVariant, pdfFiles, pdfIdx, ocrText, pdfDoc, pagesAdded,
                   pdfLog>>
    /\ UNCHANGED <<saveLog, mdVars, capVars>>

PdfNext == PdfList \/ PdfOcr \/ PdfAddPage \/ PdfSave \/ PdfEndLoop \/ PdfFinalSave

-----------------------------------------------------------------------------
(* move-shot.js *)

\* an entry of process.env: unset, or set to a string
Unset == [set |-> FALSE]
EnvSet(s) == [set |-> TRUE, value |-> s]

\* the values of TARGET_URL and of DELAY_MS the process is started with
UrlPool == {Unset, EnvSet(<<>>), EnvSet(<<"u">>)}
DelayPool ==
    {Unset, EnvSet(<<"2", "5", "0">>), EnvSet(<<"0">>), EnvSet(<<"-", "5">>),
     EnvSet(<<"a", "b", "c">>)}

\* JavaScript numbers: NaN, or an integer
NaN == [nan |-> TRUE]
Num(n) == [nan |-> FALSE, n |-> n]

\* parseInt(v, 10): leading whitespace is skipped, a sign is taken, then the
\* longest run of digits; NaN without a digit (and for undefined)
parseInt(v) ==
    IF ~v.set THEN NaN
    ELSE LET t == trimStart(v.value)
             negative == t # <<>> /\ Head(t) = "-"
             u == IF t # <<>> /\ Head(t) \in {"-", "+"} THEN Tail(t) ELSE t
             ds == LeadingDigits(u)
         IN IF ds = <<>> THEN NaN
            ELSE Num(IF negative THEN 0 - parseInt10(ds) ELSE parseInt10(ds))

\* the default of line 10
DefaultDelay == 1000

\* x || d on a number: NaN and 0 are falsy
OrDefault(x, d) == IF x.nan \/ x.n = 0 THEN Num(d) ELSE x

\* line 10: parseInt(process.env.DELAY_MS, 10) || 1000
DelayMs(v) == OrDefault(parseInt(v), DefaultDelay)

\* line 23: !targetUrl
MissingUrl(v) == ~v.set \/ v.value = <<>>

\* line 28: isNaN(delayMs) || delayMs < 0
BadDelay(d) == d.nan \/ d.n < 0

\* an error is the set of the phrases its message includes
Errors ==
    { {"Target closed"}, {"Protocol error", "disconnected"}, {"Protocol error"}, {} }

\* an error of fs.mkdirSync, and the Error of line 102
PlainError == {}

\* the pointer positions the page reports
Positions == { <<0, 0>>, <<120, 340>>, <<640, 80>> }

\* the awaits inside the for loop of lines 181-215
LoopPcs == {"move", "preclick", "click", "delay", "screenshot"}

\* the session is usable: the browser is connected and the page is open
Usable == browser = "connected" /\ ~pageClosed

\* a catch that takes an error reporting a closed target for a clean shutdown
CatchExitCode_session_clean(error) ==
    IF ~shuttingDown /\ ~("Target closed" \in error
                          \/ ("Protocol error" \in error /\ "disconnected" \in error))
    THEN 1
    ELSE exitCode

\* a catch that reports every error as a crash
CatchExitCode_always_one(error) == 1

\* lines 219-228: process.exitCode after the catch block
CatchExitCode(error) ==
    IF ~shuttingDown /\ ~("Target closed" \in error
                          \/ ("Protocol error" \in error /\ "disconnected" \in error))
    THEN 1
    ELSE IF ~shuttingDown THEN 1
    ELSE exitCode

\* a finally block that exits without closing the browser
Finally_no_close(code) ==
    /\ exitCode' = code
    /\ pc' = "exited"
    /\ exited' = code
    /\ UNCHANGED browser

\* lines 229-241 up to the await of browser.close(): with a connected browser
\* the function waits for the close, otherwise it exits at once
Finally(code) ==
    /\ exitCode' = code
    /\ IF browser = "connected"
       THEN pc' = "close" /\ UNCHANGED <<exited, browser>>
       ELSE pc' = "exited" /\ exited' = code /\ UNCHANGED browser

\* a loop head that goes on although the stop flag is down
Continues_ignores_flag == ~pageClosed

\* line 181 (the loop condition) and line 183: the iteration goes on
Continues == keepRunning /\ ~pageClosed

\* line 204: the check before the screenshot
ContinuesToScreenshot == keepRunning /\ ~pageClosed

\* a loop that numbers every file 1
NextIndex_stuck(index) == 1

\* the i++ of line 181
NextIndex(index) == index + 1

\* a confirmation that returns what the polling read last
ConfirmedCoords_last_polled(pointer, polled) == polled

\* lines 94-100: finalCoords, the position the page reports when the
\* evaluation of the confirmation runs
ConfirmedCoords(pointer, polled) == pointer

\* a loop that clicks where the pointer is
ClickPoint_follows_pointer(clickPoint, pointer) == pointer

\* lines 191 and 195: the arguments (capturedX, capturedY) of move and click
ClickPoint(clickPoint, pointer) == clickPoint

NoPoint == <<-1, -1>>
\* a call the loop makes: page.mouse.move, page.mouse.click, the delay timer
\* of line 198 and page.screenshot
Call(index, op, xy, ms) == [i |-> index, op |-> op, xy |-> xy, ms |-> ms]

\* the loop condition and the check of lines 183-186 with loop variable index:
\* either page.mouse.move is called (line 191), or the loop is left
LoopHead(index) ==
    /\ i' = index
    /\ IF Continues
       THEN /\ pc' = "move"
            /\ ops' = Append(ops, Call(index, "move", ClickPoint(captured', mousePos), 0))
            /\ UNCHANGED <<exitCode, exited, browser>>
       ELSE Finally(exitCode) /\ UNCHANGED ops

NoError == [is |-> FALSE]
NotBroken == [is |-> FALSE]

\* a rejected await (or a throw): the catch block, then the finally block
Throw(error) ==
    /\ caught' = [is |-> TRUE, error |-> error, shuttingDown |-> shuttingDown, at |-> pc]
    /\ brokeAt' = IF pc \in LoopPcs /\ ~brokeAt.is
                  THEN [is |-> TRUE, i |-> i, n |-> Len(ops)] ELSE brokeAt
    /\ Finally(CatchExitCode(error))

NoSigint == [k |-> -1, at |-> "none"]
NoConfirmation == [entered |-> FALSE, done |-> FALSE]

CapIdle ==
    /\ pc = "idle" /\ i = 0 /\ keepRunning = TRUE /\ shuttingDown = FALSE
    /\ browser = "null" /\ pageClosed = FALSE /\ exitCode = 0 /\ exited = NotExited
    /\ written = <<>> /\ mousePos = <<0, 0>> /\ latestMousePos = <<0, 0>>
    /\ captured = <<0, 0>> /\ sigintAt = NoSigint
    /\ env = [TARGET_URL |-> Unset, DELAY_MS |-> Unset] /\ resources = {}
    /\ ops = <<>> /\ caught = NoError /\ brokeAt = NotBroken
    /\ pollInFlight = FALSE /\ confirmation = NoConfirmation

\* lines 8-20 and 116-117: the process is started with some environment
CapInit ==
    /\ pc = "start" /\ i = 0 /\ keepRunning = TRUE /\ shuttingDown = FALSE
    /\ browser = "null" /\ pageClosed = FALSE /\ exitCode = 0 /\ exited = NotExited
    /\ written = <<>> /\ mousePos = <<0, 0>> /\ latestMousePos = <<0, 0>>
    /\ captured = <<0, 0>> /\ sigintAt = NoSigint
    /\ env \in [TARGET_URL : UrlPool, DELAY_MS : DelayPool] /\ resources = {}
    /\ ops = <<>> /\ caught = NoError /\ brokeAt = NotBroken
    /\ pollInFlight = FALSE /\ confirmation = NoConfirmation

\* lines 10 and 198: the delay the loop waits
delayMs == DelayMs(env.DELAY_MS)

\* lines 23-31 and 119-133: the input validation exits with code 1; otherwise
\* the session directory is ensured (fs.mkdirSync may throw) and
\* puppeteer.launch is called
Validate ==
    /\ pc = "start"
    /\ IF MissingUrl(env.TARGET_URL) \/ BadDelay(delayMs)
       THEN /\ pc' = "exited"
            /\ exited' = 1
            /\ UNCHANGED <<resources, exitCode, browser, caught, brokeAt>>
       ELSE \/ /\ resources' = resources \cup {"sessionDir"}
               /\ pc' = "launch"
               /\ UNCHANGED <<exitCode, exited, browser, caught, brokeAt>>
            \/ Throw(PlainError) /\ UNCHANGED resources
    /\ UNCHANGED <<i, keepRunning, shuttingDown, pageClosed, written, mousePos,
                   latestMousePos, captured, sigintAt, env, ops, pollInFlight,
                   confirmation>>
    /\ UNCHANGED <<listVars, mdVars, pdfVars>>

\* lines 133-146: puppeteer.launch resolves or rejects
Launch ==
    /\ pc = "launch"
    /\ \/ /\ browser' = "connected"
          /\ resources' = resources \cup {"browser"}
          /\ pc' = "newPage"
          /\ UNCHANGED <<exitCode, exited, caught, brokeAt>>
       \/ (\E e \in Errors : Throw(e)) /\ UNCHANGED resources
    /\ UNCHANGED <<i, keepRunning, shuttingDown, pageClosed, written, mousePos,
                   latestMousePos, captured, sigintAt, env, ops, pollInFlight,
                   confirmation>>
    /\ UNCHANGED <<listVars, mdVars, pdfVars>>

\* an awaited call into the browser session resolves (only while the session
\* is usable) and the function goes on to the next await, or it rejects
SessionStep(from, to) ==
    /\ pc = from
    /\ \/ /\ Usable
          /\ pc' = to
          /\ UNCHANGED <<exitCode, exited, browser, caught, brokeAt>>
       \/ \E e \in Errors : Throw(e)
    /\ UNCHANGED <<i, keepRunning, shuttingDown, pageClosed, written, mousePos,
                   latestMousePos, captured, sigintAt, env, resources, ops,
                   pollInFlight, confirmation>>
    /\ UNCHANGED <<listVars, mdVars, pdfVars>>

\* line 146
NewPage == pc = "newPage" /\ SessionStep("newPage", "inject")
\* lines 149-156
Inject == pc = "inject" /\ SessionStep("inject", "goto")
\* line 160; then askQuestion is called (line 166)
Goto == pc = "goto" /\ SessionStep("goto", "ask")

\* the mousemove listener of lines 152-155: the user moves the pointer
MouseMove ==
    /\ pc \in {"ask", "confirm"} \cup LoopPcs
    /\ Usable
    /\ \E p \in Positions : mousePos' = p /\ p # mousePos
    /\ UNCHANGED <<pc, i, keepRunning, shuttingDown, browser, pageClosed, exitCode,
                   exited, written, latestMousePos, captured, sigintAt, env,
                   resources, ops, caught, brokeAt, pollInFlight, confirmation>>
    /\ UNCHANGED <<listVars, mdVars, pdfVars>>

\* lines 62-69: a tick of the polling interval while the prompt is open and
\* the page is not closed: page.evaluate is called
Poll ==
    /\ pc = "ask"
    /\ ~pageClosed
    /\ ~pollInFlight
    /\ pollInFlight' = TRUE
    /\ UNCHANGED <<pc, i, keepRunning, shuttingDown, browser, pageClosed, exitCode,
                   exited, written, mousePos, latestMousePos, captured, sigintAt,
                   env, resources, ops, caught, brokeAt, confirmation>>
    /\ UNCHANGED <<listVars, mdVars, pdfVars>>

\* lines 69-86: the evaluation of a tick resolves, latestMousePos is assigned
\* and displayed; or it rejects and the error is ignored
PollDone ==
    /\ pollInFlight
    /\ pc # "exited"
    /\ \/ Usable /\ latestMousePos' = mousePos
       \/ UNCHANGED latestMousePos
    /\ pollInFlight' = FALSE
    /\ UNCHANGED <<pc, i, keepRunning, shuttingDown, browser, pageClosed, exitCode,
                   exited, written, mousePos, captured, sigintAt, env, resources,
                   ops, caught, brokeAt, confirmation>>
    /\ UNCHANGED <<listVars, mdVars, pdfVars>>

\* lines 89-93 and 101-102: ENTER is pressed; the interval is cleared, the
\* prompt is closed and the position is evaluated once more, or the promise
\* is rejected because the page is closed
Enter ==
    /\ pc = "ask"
    /\ confirmation' = [entered |-> TRUE, done |-> FALSE, polled |-> latestMousePos]
    /\ IF ~pageClosed
       THEN pc' = "confirm" /\ UNCHANGED <<exitCode, exited, browser, caught, brokeAt>>
       ELSE Throw(PlainError)
    /\ UNCHANGED <<i, keepRunning, shuttingDown, pageClosed, written, mousePos,
                   latestMousePos, captured, sigintAt, env, resources, ops,
                   pollInFlight>>
    /\ UNCHANGED <<listVars, mdVars, pdfVars>>

\* lines 94-108 and 166-186: the evaluation of the confirmation resolves, its
\* result becomes the click point, the output directory is ensured and the
\* loop is entered with i = 1; or the evaluation rejects; or fs.mkdirSync
\* throws after the click point is set
Confirm ==
    /\ pc = "confirm"
    /\ \/ /\ Usable
          /\ captured' = ConfirmedCoords(mousePos, latestMousePos)
          /\ confirmation' = [entered |-> TRUE, done |-> TRUE,
                              polled |-> confirmation.polled, pointer |-> mousePos]
          /\ \/ /\ resources' = resources \cup {"outputDir"}
                /\ LoopHead(1)
                /\ UNCHANGED <<caught, brokeAt>>
             \/ /\ Throw(PlainError)
                /\ UNCHANGED <<i, resources, ops>>
       \/ /\ \E e \in Errors : Throw(e)
          /\ UNCHANGED <<i, captured, confirmation, resources, ops>>
    /\ UNCHANGED <<keepRunning, shuttingDown, pageClosed, written, mousePos,
                   latestMousePos, sigintAt, env, pollInFlight>>
    /\ UNCHANGED <<listVars, mdVars, pdfVars>>

\* lines 191-194: page.mouse.move resolves, the pointer is where the call put
\* it, and the pre-click timer is started; or the move rejects
Move ==
    /\ pc = "move"
    /\ i <= MaxIter
    /\ \/ /\ Usable
          /\ mousePos' = ops[Len(ops)].xy
          /\ pc' = "preclick"
          /\ UNCHANGED <<exitCode, exited, browser, caught, brokeAt>>
       \/ (\E e \in Errors : Throw(e)) /\ UNCHANGED mousePos
    /\ UNCHANGED <<i, keepRunning, shuttingDown, pageClosed, written,
                   latestMousePos, captured, sigintAt, env, resources, ops,
                   pollInFlight, confirmation>>
    /\ UNCHANGED <<listVars, mdVars, pdfVars>>

\* lines 194-195: the pre-click timer fires and page.mouse.click is called
PreClick ==
    /\ pc = "preclick"
    /\ pc' = "click"
    /\ ops' = Append(ops, Call(i, "click", ClickPoint(captured, mousePos), 0))
    /\ UNCHANGED <<i, keepRunning, shuttingDown, browser, pageClosed, exitCode, exited,
                   written, mousePos, latestMousePos, captured, sigintAt, env,
                   resources, caught, brokeAt, pollInFlight, confirmation>>
    /\ UNCHANGED <<listVars, mdVars, pdfVars>>

\* lines 195-198: page.mouse.click resolves and the main delay of delayMs
\* milliseconds is started; or the click rejects
Click ==
    /\ pc = "click"
    /\ \/ /\ Usable
          /\ ops' = Append(ops, Call(i, "wait", NoPoint, delayMs.n))
          /\ pc' = "delay"
          /\ UNCHANGED <<exitCode, exited, browser, caught, brokeAt>>
       \/ (\E e \in Errors : Throw(e)) /\ UNCHANGED ops
    /\ UNCHANGED <<i, keepRunning, shuttingDown, pageClosed, written, mousePos,
                   latestMousePos, captured, sigintAt, env, resources,
                   pollInFlight, confirmation>>
    /\ UNCHANGED <<listVars, mdVars, pdfVars>>

\* lines 198-209: the main delay is over; the flags are checked again and
\* either page.screenshot is called or the loop is left
Delay ==
    /\ pc = "delay"
    /\ IF ContinuesToScreenshot
       THEN /\ pc' = "screenshot"
            /\ ops' = Append(ops, Call(i, "screenshot", NoPoint, 0))
            /\ UNCHANGED <<exitCode, exited, browser>>
       ELSE Finally(exitCode) /\ UNCHANGED ops
    /\ UNCHANGED <<i, keepRunning, shuttingDown, pageClosed, written, mousePos,
                   latestMousePos, captured, sigintAt, env, resources, caught,
                   brokeAt, pollInFlight, confirmation>>
    /\ UNCHANGED <<listVars, mdVars, pdfVars>>

\* lines 209-215 and 181-191: page.screenshot resolves, the file i.png is
\* written, i is incremented and the loop head runs; or it rejects
Screenshot ==
    /\ pc = "screenshot"
    /\ UNCHANGED captured
    /\ \/ /\ Usable
          /\ written' = Append(written, i)
          /\ LoopHead(NextIndex(i))
          /\ UNCHANGED <<caught, brokeAt>>
       \/ /\ \E e \in Errors : Throw(e)
          /\ UNCHANGED <<i, written, ops>>
    /\ UNCHANGED <<keepRunning, shuttingDown, pageClosed, mousePos, latestMousePos,
                   sigintAt, env, resources, pollInFlight, confirmation>>
    /\ UNCHANGED <<listVars, mdVars, pdfVars>>

\* lines 233-240: browser.close() resolves and the process exits
Close ==
    /\ pc = "close"
    /\ browser' = "closed"
    /\ pc' = "exited"
    /\ exited' = exitCode
    /\ UNCHANGED <<i, keepRunning, shuttingDown, pageClosed, exitCode, written,
                   mousePos, latestMousePos, captured, sigintAt, env, resources,
                   ops, caught, brokeAt, pollInFlight, confirmation>>
    /\ UNCHANGED <<listVars, mdVars, pdfVars>>

\* lines 35-45: the SIGINT handler, run while the main function is suspended
Sigint ==
    /\ pc \notin {"idle", "start", "exited"}
    /\ ~shuttingDown \/ (pc \in LoopPcs /\ sigintAt = NoSigint)
    /\ IF shuttingDown THEN UNCHANGED <<shuttingDown, keepRunning>>
       ELSE shuttingDown' = TRUE /\ keepRunning' = FALSE
    /\ sigintAt' = IF pc \in LoopPcs /\ sigintAt = NoSigint
                   THEN [k |-> i - 1, at |-> pc] ELSE sigintAt
    /\ UNCHANGED <<pc, i, browser, pageClosed, exitCode, exited, written, mousePos,
                   latestMousePos, captured, env, resources, ops, caught, brokeAt,
                   pollInFlight, confirmation>>
    /\ UNCHANGED <<listVars, mdVars, pdfVars>>

\* the session becomes unusable while the loop is at one of its awaits
Breaks ==
    IF pc \in LoopPcs /\ ~brokeAt.is
    THEN [is |-> TRUE, i |-> i, n |-> Len(ops)] ELSE brokeAt

\* lines 140-144: the browser goes away and the disconnected handler runs
Disconnect ==
    /\ pc \notin {"idle", "exited", "close"}
    /\ browser = "connected"
    /\ browser' = "disconnected"
    /\ pageClosed' = TRUE
    /\ keepRunning' = FALSE
    /\ shuttingDown' = TRUE
    /\ brokeAt' = Breaks
    /\ UNCHANGED <<pc, i, exitCode, exited, written, mousePos, latestMousePos,
                   captured, sigintAt, env, resources, ops, caught, pollInFlight,
                   confirmation>>
    /\ UNCHANGED <<listVars, mdVars, pdfVars>>

\* the page is closed from outside (page.isClosed() of lines 183 and 204)
PageClose ==
    /\ pc \in {"inject", "goto", "ask", "confirm"} \cup LoopPcs
    /\ Usable
    /\ pageClosed' = TRUE
    /\ brokeAt' = Breaks
    /\ UNCHANGED <<pc, i, keepRunning, shuttingDown, browser, exitCode, exited, written,
                   mousePos, latestMousePos, captured, sigintAt, env, resources,
                   ops, caught, pollInFlight, confirmation>>
    /\ UNCHANGED <<listVars, mdVars, pdfVars>>

CapNext ==
    \/ Validate \/ Launch \/ NewPage \/ Inject \/ Goto \/ MouseMove \/ Poll
    \/ PollDone \/ Enter \/ Confirm \/ Move \/ PreClick \/ Click \/ Delay
    \/ Screenshot \/ Close \/ Sigint \/ Disconnect \/ PageClose

-----------------------------------------------------------------------------
(* Specifications *)

DirInit(pool, max) ==
    /\ dirState \in DirStates
    /\ allFiles \in Directories(pool, max)
    /\ dirState # "ok" => allFiles = <<>>
    /\ listed = [called |-> FALSE]

DirIdle == dirState = "ok" /\ allFiles = <<>> /\ listed = [called |-> FALSE]

\* one call of getScreenshotFiles on the directory
ListFiles ==
    /\ ~listed.called
    /\ listed' = [called |-> TRUE, result |-> getScreenshotFiles(dirState, allFiles)]
    /\ UNCHANGED <<dirState, allFiles>>
    /\ UNCHANGED <<mdVars, pdfVars, capVars>>

\* getScreenshotFiles on any directory
InitList == DirInit(NamePool, MaxDirEntries) /\ MdIdle /\ PdfIdle /\ CapIdle
NextList == ListFiles
SpecList == InitList /\ [][NextList]_vars

\* ocr.js run standalone
InitMd == DirInit(PagePool, MaxPages) /\ MdInit /\ PdfIdle /\ CapIdle
NextMd == MdNext
SpecMd == InitMd /\ [][NextMd]_vars

\* ocr.js run twice over the same directory, one run after the other, with an
\* inference service that answers the same for the same page
InitMdTwice == InitMd
NextMdTwice == MdNext \/ MdRerun
SpecMdTwice == InitMdTwice /\ [][NextMdTwice]_vars

\* pdf.js, either variant
InitPdf == DirInit(PagePool, MaxPages) /\ MdIdle /\ PdfInit /\ CapIdle
NextPdf == PdfNext
SpecPdf == InitPdf /\ [][NextPdf]_vars

\* one run of an assembler, ocr.js or pdf.js in either variant
InitAsm ==
    /\ DirInit(PagePool, MaxPages)
    /\ (MdInit /\ PdfIdle) \/ (MdIdle /\ PdfInit)
    /\ CapIdle
NextAsm == MdNext \/ PdfNext
SpecAsm == InitAsm /\ [][NextAsm]_vars

\* move-shot.js
InitCap == DirIdle /\ MdIdle /\ PdfIdle /\ CapInit
NextCap == CapNext
SpecCap == InitCap /\ [][NextCap]_vars

Init == InitCap
Next == NextCap
Spec == SpecCap

-----------------------------------------------------------------------------
(* Properties of getScreenshotFiles, checked under SpecList *)

\* the name ends in .png, in any letter case
Qualifies(name) ==
    /\ Len(name) >= 4
    /\ name[Len(name) - 3] = "."
    /\ name[Len(name) - 2] \in {"p", "P"}
    /\ name[Len(name) - 1] \in {"n", "N"}
    /\ name[Len(name)] \in {"g", "G"}

RECURSIVE PrefixValue(_, _)
\* the number written by the digits the name starts with, 0 when there are none
PrefixValue(name, acc) ==
    IF name # <<>> /\ Head(name) \in Digits
    THEN PrefixValue(Tail(name), 10 * acc + DigitValue(Head(name)))
    ELSE acc

QualifyingNames == {n \in Range(allFiles) : Qualifies(n)}

\* C1: on a readable directory holding N >= 1 names that end in .png (any
\* letter case), getScreenshotFiles returns exactly those N names, each once,
\* in ascending order of the leading integer of the name (0 when the name
\* has none), whatever the enumeration order; no other name is returned.
C1_ListingSortedByPrefix ==
    (listed.called /\ dirState = "ok" /\ QualifyingNames # {}) =>
        /\ listed.result.ok
        /\ LET files == listed.result.files
           IN /\ Len(files) = Cardinality(QualifyingNames)
              /\ Range(files) = QualifyingNames
              /\ \A j, k \in 1..Len(files) :
                   j < k => PrefixValue(files[j], 0) <= PrefixValue(files[k], 0)

\* C1 witness: 2.png, 10.png, 1.png comes back as 1.png, 2.png, 10.png
C1_Witness ==
    /\ listed.called
    /\ allFiles = << <<"2", ".", "p", "n", "g">>, <<"1", "0", ".", "p", "n", "g">>,
                     <<"1", ".", "p", "n", "g">> >>
    /\ listed.result.ok
    /\ listed.result.files = << <<"1", ".", "p", "n", "g">>, <<"2", ".", "p", "n", "g">>,
                                <<"1", "0", ".", "p", "n", "g">> >>

\* C2: getScreenshotFiles never returns an empty list; on a directory without
\* a qualifying name it fails with the no-images error, on a missing directory
\* with the directory-not-found error, and the two errors differ.
C2_EmptyAndNotFound ==
    listed.called =>
        /\ listed.result.ok => Len(listed.result.files) > 0
        /\ dirState = "ENOENT" =>
             /\ ~listed.result.ok
             /\ listed.result.error.message = "Screenshots directory not found"
        /\ (dirState = "ok" /\ QualifyingNames = {}) =>
             /\ ~listed.result.ok
             /\ listed.result.error.message = "No .png files found in the screenshots directory."

\* C2 witness: a directory that holds entries, none of them an image
C2_Witness ==
    /\ listed.called
    /\ dirState = "ok"
    /\ allFiles # <<>>
    /\ ~listed.result.ok
    /\ listed.result.error = EmptyError

-----------------------------------------------------------------------------
(* Properties of the transcriber and of text assembly, checked under SpecMd *)

\* C3: performOcrOnImage never rejects: whatever the image read and the
\* inference request come to, every call made so far has resolved, to null
\* when the read or the request failed or the response had no content, and
\* to a string exactly when the service answered with content.
C3_TranscriberNeverThrows ==
    \A k \in 1..Len(mdLog) :
        LET call == mdLog[k]
            answered == /\ call.outcome.kind = "response"
                        /\ call.outcome.hasContent
                        /\ Len(call.outcome.content) > 0
        IN /\ ~call.threw
           /\ call.value.isNull <=> ~answered

\* C3 witness: an unreadable image, a failed request and an answered one
C3_Witness ==
    /\ Len(mdLog) = 3
    /\ mdLog[1].outcome.kind = "readError" /\ mdLog[1].value = NullResult
    /\ mdLog[2].outcome.kind = "chatError" /\ mdLog[2].value = NullResult
    /\ mdLog[3].outcome.kind = "response" /\ ~mdLog[3].value.isNull
    /\ mdPc = "completed"

\* the block of one page in the text artifact
PageBlock(filename, result) ==
    IF result.isNull
    THEN <<"\n", "\n", "[", "O", "C", "R", " ", "W", "a", "r", "n", "i", "n", "g", "/",
           "E", "r", "r", "o", "r", " ", "f", "o", "r", " ">> \o filename \o <<"]", "\n", "\n">>
    ELSE result.text \o <<"\n", "\n">>

\* the blocks of the first k listed pages, in listing order
PageBlocks(k) == Concat([j \in 1..k |-> PageBlock(mdFiles[j], mdLog[j].value)])

TitleLine ==
    <<"#", " ", "T", "r", "a", "n", "s", "c", "r", "i", "p", "t", "i", "o", "n",
      " ", "R", "e", "s", "u", "l", "t", "s", "\n", "\n">>

\* C4: when the run has gone over the listed pages p1..pN, every page has been
\* transcribed once, in listing order, and the text artifact is the title line
\* followed by exactly one block per page in that order: the text and a blank
\* line, or the failure marker naming the file when the result was null. A
\* null result does not end the run: the run stops early only at a failed write.
C4_OneBlockPerPage ==
    /\ \A k \in 1..Len(mdLog) : mdLog[k].file = mdFiles[k]
    /\ mdPc = "completed" =>
         /\ Len(mdLog) = Len(mdFiles)
         /\ mdFile.exists
         /\ mdFile.content = TitleLine \o PageBlocks(Len(mdFiles))
    /\ (mdPc = "loop" /\ mdIdx > 0 /\ mdLog[mdIdx].value.isNull) =>
         mdFile.content = TitleLine \o PageBlocks(mdIdx)

\* C4 witness: Hello, null, World for 1.png, 2.png, 10.png
C4_Witness ==
    /\ mdPc = "completed"
    /\ mdFiles = << <<"1", ".", "p", "n", "g">>, <<"2", ".", "p", "n", "g">>,
                    <<"1", "0", ".", "p", "n", "g">> >>
    /\ mdLog[1].value = TextResult(<<"H", "e", "l", "l", "o">>)
    /\ mdLog[2].value = NullResult
    /\ mdLog[3].value = TextResult(<<"W", "o", "r", "l", "d">>)
    /\ mdFile.content =
         TitleLine \o <<"H", "e", "l", "l", "o", "\n", "\n">>
         \o <<"\n", "\n", "[", "O", "C", "R", " ", "W", "a", "r", "n", "i", "n", "g", "/",
              "E", "r", "r", "o", "r", " ", "f", "o", "r", " ", "2", ".", "p", "n", "g",
              "]", "\n", "\n">>
         \o <<"W", "o", "r", "l", "d", "\n", "\n">>

\* the title line has been written by this run
MdStarted ==
    \/ mdPc \in {"loop", "append", "completed"}
    \/ mdPc = "caught" /\ mdLog # <<>>

\* C7: text assembly writes incrementally: at every point of a run at which k
\* pages have been completed, the file on disk holds the title line and the
\* blocks of pages 1..k in listing order and nothing of a later page, also
\* when the run is cut short after page k; before the run has written
\* anything the file is as the run found it.
C7_IncrementalText ==
    /\ MdStarted =>
         /\ mdIdx <= Len(mdFiles)
         /\ mdFile.exists
         /\ mdFile.content = TitleLine \o PageBlocks(mdIdx)
    /\ ~MdStarted => mdFile \in {Absent, OldMd}

\* C7 witness: the run is cut short with two of three pages completed
C7_Witness ==
    /\ mdPc = "caught"
    /\ Len(mdFiles) = 3
    /\ mdIdx = 2
    /\ Len(mdLog) = 3
    /\ mdFile.content = TitleLine \o PageBlocks(2)
    /\ mdFile.content # TitleLine \o PageBlocks(1)

-----------------------------------------------------------------------------
(* Properties of document assembly, checked under SpecPdf *)

\* the images of the pages of a document, in page order
Images(pages) == [k \in 1..Len(pages) |-> pages[k].image]

\* the number of iterations before the k-th one that added a page
PagesBefore(k) == Cardinality({j \in 1..(k - 1) : pdfLog[j].page # 0})

\* the file on disk is as the run found it
PdfUntouched == pdfFile \in {AbsentPdf, OldPdf}

\* C5 as stated: a finished run over N >= 1 listed images leaves a document
\* of exactly N pages, the i-th page built from the i-th listed image.
C5_Original ==
    pdfPc = "done" =>
        /\ Len(pdfDoc) = Len(pdfFiles)
        /\ Images(pdfDoc) = pdfFiles

\* C5 amended: in both variants the images are visited once each in listing
\* order, and the document gets exactly one page per listed image whose bytes
\* could be read and embedded, in listing order, never reordered or
\* duplicated; a failed transcription never skips a page, a read or embed
\* that throws does, so the document has N pages exactly when no read or
\* embed threw. What is on disk is as the run found it or a saved prefix of
\* the document (the whole document after the save of the save-once
\* variant). When the listing fails (N = 0) the run aborts: no page is
\* built and the file is not written.
C5_OnePagePerEmbeddedImage ==
    /\ Len(pdfLog) <= Len(pdfFiles)
    /\ \A k \in 1..Len(pdfLog) :
         /\ pdfLog[k].file = pdfFiles[k]
         /\ pdfLog[k].page = 0 <=> pdfLog[k].threw = "image"
         /\ pdfLog[k].page # 0 =>
              /\ pdfLog[k].page = PagesBefore(k) + 1
              /\ pdfLog[k].page <= Len(pdfDoc)
              /\ pdfDoc[pdfLog[k].page].image = pdfLog[k].file
    /\ Len(pdfDoc) = PagesBefore(Len(pdfLog) + 1)
    /\ pagesAdded = Len(pdfDoc)
    /\ pdfPc \in {"done", "finalsave"} => Len(pdfLog) = Len(pdfFiles)
    /\ (pdfPc = "done" /\ \A k \in 1..Len(pdfLog) : pdfLog[k].threw # "image") =>
         Images(pdfDoc) = pdfFiles
    /\ \/ PdfUntouched
       \/ /\ pdfFile.exists
          /\ Len(pdfFile.pages) >= 1
          /\ Len(pdfFile.pages) <= Len(pdfDoc)
          /\ pdfFile.pages = SubSeq(pdfDoc, 1, Len(pdfFile.pages))
          /\ pdfVariant = "once" => pdfFile.pages = pdfDoc
    /\ pdfPc = "returned" => pdfDoc = <<>> /\ pdfLog = <<>> /\ PdfUntouched

\* C5 witness: of three images the second cannot be embedded and the third
\* gets no transcription; the document has the first and the third
C5_Witness ==
    /\ pdfPc = "done"
    /\ Len(pdfFiles) = 3
    /\ pdfLog[1].page = 1
    /\ pdfLog[2].threw = "image"
    /\ pdfLog[3].value.isNull /\ pdfLog[3].page = 2
    /\ Images(pdfDoc) = <<pdfFiles[1], pdfFiles[3]>>
    /\ pdfFile.pages = pdfDoc

\* the transcription is text that is not blank
NonBlank(result) ==
    /\ ~result.isNull
    /\ \E k \in 1..Len(result.text) : result.text[k] \notin {" ", "\n"}

\* C6 as stated: a page carries a text layer if and only if the transcriber
\* returned non-blank text for its image.
C6_Original ==
    \A k \in 1..Len(pdfLog) :
        pdfLog[k].page # 0 =>
            (pdfDoc[pdfLog[k].page].layer.has <=> NonBlank(pdfLog[k].value))

\* C6 amended: a page carries a text layer if and only if the transcriber
\* returned non-blank text for its image and drawing that text did not throw;
\* the layer then holds the whole text. When the transcription is null or
\* blank, the page is still added with its image (unless reading or embedding
\* the image threw) and has no text layer.
C6_TextLayerIffNonBlankAndDrawn ==
    \A k \in 1..Len(pdfLog) :
        LET entry == pdfLog[k]
        IN /\ entry.page # 0 =>
                /\ pdfDoc[entry.page].image = entry.file
                /\ pdfDoc[entry.page].layer.has <=>
                       (NonBlank(entry.value) /\ entry.threw # "draw")
                /\ pdfDoc[entry.page].layer.has =>
                       pdfDoc[entry.page].layer.text = entry.value.text
           /\ entry.threw = "draw" => NonBlank(entry.value)
           /\ (~NonBlank(entry.value) /\ entry.threw # "image") => entry.page # 0

\* C6 witness: a page for a null transcription and a page for a blank one,
\* both without a layer, and a page with its text layer
C6_Witness ==
    /\ Len(pdfDoc) = 3
    /\ pdfLog[1].value.isNull /\ ~pdfDoc[1].layer.has
    /\ ~pdfLog[2].value.isNull /\ pdfLog[2].value.text = <<>> /\ ~pdfDoc[2].layer.has
    /\ pdfDoc[3].layer = TextLayer(<<"H", "e", "l", "l", "o">>)

\* C8 as stated: in the incremental variant, between two pages and at the end
\* of the run, the file on disk holds every page added so far, in order.
C8_Original ==
    (pdfVariant = "incremental" /\ pdfPc \in {"loop", "done"} /\ pagesAdded > 0) =>
        /\ pdfFile.exists
        /\ pdfFile.pages = pdfDoc

-----------------------------------------------------------------------------
(* Properties of the capture loop, checked under SpecCap *)

\* the files 1.png .. n.png, written once each in this order
FilesOneTo(n) == [k \in 1..n |-> k]

\* C9 as stated: an interrupt that arrives during the loop after k completed
\* iterations ends the run with exactly the files 1.png .. k.png, the
\* browser closed and exit code 0.
C9_Original ==
    (exited # NotExited /\ sigintAt # NoSigint) =>
        /\ written = FilesOneTo(sigintAt.k)
        /\ browser # "connected"
        /\ exited = 0

\* C9 amended: an interrupt that arrives during the loop after k completed
\* iterations ends the run with the files 1.png .. k.png, or 1.png .. (k+1).png
\* when it arrives while the screenshot of iteration k+1 is already being
\* taken; iteration k+1 is the last one started, the browser is not left
\* connected and the process exits with code 0.
C9_InterruptStopsLoop ==
    sigintAt # NoSigint =>
        /\ ~keepRunning
        /\ pc \in LoopPcs => i = sigintAt.k + 1
        /\ i \in {sigintAt.k + 1, sigintAt.k + 2}
        /\ Len(written) \in {sigintAt.k, sigintAt.k + 1}
        /\ Len(written) = sigintAt.k + 1 => sigintAt.at = "screenshot"
        /\ exitCode = 0
        /\ exited # NotExited =>
             /\ written = FilesOneTo(Len(written))
             /\ browser # "connected"
             /\ exited = 0

\* C9 witness: the interrupt arrives during the click of the third
\* iteration; the run ends with 1.png and 2.png, the browser closed, code 0
C9_Witness ==
    /\ sigintAt = [k |-> 2, at |-> "click"]
    /\ exited = 0
    /\ written = <<1, 2>>
    /\ browser = "closed"

\* C10: the file index starts at 1 and grows by one per completed iteration:
\* at every moment the files written by the run are 1.png .. k.png, once
\* each and in this order, k being the number of completed iterations (the
\* loop variable is k + 1 from the entry of the loop on); an iteration that
\* is abandoned leaves no file.
C10_SequentialFiles ==
    /\ written = FilesOneTo(Len(written))
    /\ i = 0 => written = <<>> /\ pc \notin LoopPcs
    /\ i # 0 => Len(written) = i - 1
    /\ pc \in LoopPcs => i >= 1

\* C10 witness: two iterations completed, the third abandoned by an error
C10_Witness ==
    /\ exited = 1
    /\ i = 3
    /\ written = <<1, 2>>

\* the configuration passes the input validation of lines 23-31
ConfigAccepted == ~MissingUrl(env.TARGET_URL) /\ ~BadDelay(delayMs)

ValidDelayText(v) == v.set /\ v.value # <<>> /\ \A k \in 1..Len(v.value) : v.value[k] \in Digits

\* the delays the loop has waited
Waits == {ops[k].ms : k \in {j \in 1..Len(ops) : ops[j].op = "wait"}}

\* C12 as stated: a missing target location, or a configured delay that is
\* not a non-negative integer, ends the process with a nonzero code before
\* anything is opened; a valid non-negative delay is the delay the loop
\* waits, and 1000 ms is waited only when no delay is configured.
C12_Original ==
    /\ (pc # "start" /\ (MissingUrl(env.TARGET_URL)
                          \/ (env.DELAY_MS.set /\ ~ValidDelayText(env.DELAY_MS)))) =>
         /\ exited \notin {NotExited, 0}
         /\ resources = {}
         /\ browser = "null"
    /\ ValidDelayText(env.DELAY_MS) => Waits \subseteq {parseInt10(env.DELAY_MS.value)}
    /\ Waits # {} /\ DefaultDelay \in Waits => ~env.DELAY_MS.set

\* a session error, as the catch of line 221 tells it
SessionError(error) ==
    "Target closed" \in error \/ ("Protocol error" \in error /\ "disconnected" \in error)

C15_UnusableEndsLoop ==
    /\ \A j, k \in 1..Len(ops) :
         (j < k /\ ops[j].i = ops[k].i) => ops[j].op # ops[k].op
    /\ brokeAt.is =>
         /\ i = brokeAt.i
         /\ Len(written) = brokeAt.i - 1
         /\ Len(ops) <= brokeAt.n + 1
         /\ \A k \in (brokeAt.n + 1)..Len(ops) :
              ops[k].i = brokeAt.i /\ ops[k].op = "click"
    /\ pc = "exited" => browser # "connected"
    /\ exited # NotExited => pc = "exited"

\* C15 witness: the page is closed while the second iteration waits for its
\* click timer; the click rejects, the browser is closed, the process exits
C15_Witness ==
    /\ brokeAt.is /\ brokeAt.i = 2
    /\ Len(ops) = brokeAt.n + 1
    /\ caught.is /\ caught.at = "click"
    /\ written = <<1>>
    /\ browser = "closed"
    /\ exited = 1

\* C18 as stated: the click point askQuestion returns is the position the
\* polling had read last when ENTER was pressed.
C18_Original ==
    confirmation.done => captured = confirmation.polled

\* C18 amended: the click point askQuestion returns is the position the page
\* reports in the evaluation made after ENTER, not the value the polling read
\* last: the two differ when the pointer moved after the last poll. A poll
\* still pending at ENTER changes the displayed value only, never the click
\* point. Before the confirmation the click point is (0, 0).
C18_ClickPointIsFinalEvaluation ==
    /\ confirmation.done => captured = confirmation.pointer
    /\ ~confirmation.done => captured = <<0, 0>>
    /\ confirmation.entered => pc # "ask"
    /\ (pollInFlight /\ ~confirmation.entered) => pc = "ask"

\* C18 witness: the pointer moved after the last poll, a poll was pending at
\* ENTER and resolved afterwards; the click point is where the pointer was
\* at the confirmation, not what had been displayed
C18_Witness ==
    /\ confirmation.done
    /\ confirmation.polled = <<120, 340>>
    /\ confirmation.pointer = <<640, 80>>
    /\ captured = <<640, 80>>
    /\ latestMousePos = <<640, 80>>
    /\ ~pollInFlight
    /\ pc = "move" /\ i = 1

\* every move and every click so far was made at the click point
AllAtClickPoint ==
    \A k \in 1..Len(ops) : ops[k].op \in {"move", "click"} => ops[k].xy = captured

\* C19: the click point is assigned once, when the confirmation resolves and
\* before the first call of the loop, and by no other step: whatever happens
\* in between (interrupt, disconnect, the page closing, the pointer moving,
\* a late poll), every move and every click of the run is made at it.
C19_ClickPointSetOnce ==
    /\ [](AllAtClickPoint /\ (~confirmation.done => captured = <<0, 0>> /\ ops = <<>>))
    /\ [][captured' # captured => (pc = "confirm" /\ ~confirmation.done
                                    /\ confirmation'.done /\ ops = <<>>)]_vars

\* C19 witness: three iterations at (120, 340) while the pointer was moved
\* elsewhere and an interrupt arrived
C19_Witness ==
    /\ captured = <<120, 340>>
    /\ mousePos = <<640, 80>>
    /\ Len(ops) = 10
    /\ ops[9].op = "move" /\ ops[9].i = 3 /\ ops[9].xy = <<120, 340>>
    /\ ops[10].op = "click" /\ ops[10].xy = <<120, 340>>
    /\ sigintAt # NoSigint

-----------------------------------------------------------------------------
(* Properties of repeated text assembly, checked under SpecMdTwice *)

\* the second run got from the transcriber, page by page, what the first got
SameTranscriptions ==
    /\ Len(mdLog) = Len(mdFirst.log)
    /\ \A k \in 1..Len(mdLog) :
         mdLog[k].file = mdFirst.log[k].file /\ mdLog[k].value = mdFirst.log[k].value

\* C13: when ocr.js has gone over the listed pages twice, one run after the
\* other, and the transcriber returned in the second run what it returned in
\* the first for every page, ocr.md after the second run is byte for byte
\* what the first run left: the second run starts by replacing the file
\* with the title line, it appends nothing to the content it finds. The
\* same holds after a first run that was cut short: the second run leaves
\* what one whole run leaves.
C13_AssemblyIdempotent ==
    /\ (mdRun = 2 /\ mdPc = "completed" /\ mdFirst.pc = "completed"
        /\ SameTranscriptions) =>
           mdFile = mdFirst.file
    /\ (mdRun = 2 /\ mdPc = "completed") =>
           mdFile = [exists |-> TRUE, content |-> TitleLine \o PageBlocks(Len(mdFiles))]
    /\ (mdRun = 2 /\ mdPc \in {"loop", "append", "completed"}) =>
           /\ Len(mdFile.content) >= Len(TitleLine)
           /\ SubSeq(mdFile.content, 1, Len(TitleLine)) = TitleLine
           /\ Len(mdFile.content) =
                Len(TitleLine) + Len(Concat([j \in 1..mdIdx |->
                                        PageBlock(mdFiles[j], mdLog[j].value)]))

\* C13 witness: two completed runs over 1.png, 2.png, 10.png with Hello, null,
\* World both times, and the file as the first run left it
C13_Witness ==
    /\ mdRun = 2 /\ mdPc = "completed" /\ mdFirst.pc = "completed"
    /\ Len(mdFiles) = 3
    /\ SameTranscriptions
    /\ mdLog[1].value = TextResult(<<"H", "e", "l", "l", "o">>)
    /\ mdLog[2].value = NullResult
    /\ mdLog[3].value = TextResult(<<"W", "o", "r", "l", "d">>)
    /\ mdFile = mdFirst.file
    /\ Len(mdFile.content) = Len(TitleLine) + 7 + 33 + 7

-----------------------------------------------------------------------------
(* Properties of both assemblers, checked under SpecAsm *)

\* the listing was asked for and threw
ListingThrew == listed.called /\ ~listed.result.ok

\* C14: when the listing throws (directory missing, or no qualifying image)
\* the assembler that asked for it returns at once: the transcriber is never
\* called, no page is built, and the output file, ocr.md or out.pdf, is
\* neither created nor written, so it is what an earlier run left or absent
\* as before.
C14_ListingErrorAborts ==
    /\ [](ListingThrew =>
            /\ mdPc \in {"idle", "returned"} /\ pdfPc \in {"idle", "returned"}
            /\ mdPc = "returned" \/ pdfPc = "returned"
            /\ mdLog = <<>> /\ mdText = NullResult /\ mdIdx = 0
            /\ pdfLog = <<>> /\ ocrText = NullResult /\ pdfIdx = 0
            /\ pdfDoc = <<>> /\ pagesAdded = 0
            /\ mdFile \in {Absent, OldMd}
            /\ pdfFile \in {AbsentPdf, OldPdf})
    /\ [][ListingThrew' => (mdFile' = mdFile /\ pdfFile' = pdfFile)]_vars

\* C14 witness: the incremental document assembler finds only 2.txt in the
\* directory, returns, and out.pdf of an earlier run is still there
C14_Witness ==
    /\ allFiles = << <<"2", ".", "t", "x", "t">> >>
    /\ ListingThrew
    /\ listed.result.error = EmptyError
    /\ pdfVariant = "incremental" /\ pdfPc = "returned"
    /\ pdfFile = OldPdf

-----------------------------------------------------------------------------
(* Properties of the incremental save, checked under SpecPdf *)

\* the last save that succeeded, 0 when none did
LastSaved ==
    LET oks == {t \in 1..Len(saveLog) : saveLog[t].ok}
    IN IF oks = {} THEN 0 ELSE CHOOSE t \in oks : \A u \in oks : u <= t

\* C17: in the incremental variant a save that fails after page k does not end
\* the run and loses nothing of the document in memory: the loop goes on to
\* the next listed image (the run ends only after the last one), page k stays
\* in the document, and every later save that succeeds writes a document
\* that holds page k too; the file on disk is what the last successful save
\* wrote (what the run found, when none succeeded).
C17_SaveFailureContinues ==
    /\ pdfVariant = "once" => saveLog = <<>>
    /\ pdfPc = "done" => pdfIdx = Len(pdfFiles) /\ Len(pdfLog) = Len(pdfFiles)
    /\ \A s \in 1..Len(saveLog) :
         LET e == saveLog[s]
         IN /\ e.pages >= 1 /\ e.pages <= Len(pdfDoc)
            /\ pdfDoc[e.pages].image = pdfFiles[e.idx]
            /\ pdfIdx >= e.idx
            /\ \A t \in (s + 1)..Len(saveLog) :
                 saveLog[t].idx > e.idx /\ saveLog[t].pages > e.pages
    /\ pdfVariant = "incremental" =>
         IF LastSaved = 0 THEN PdfUntouched
         ELSE pdfFile = [exists |-> TRUE,
                         pages |-> SubSeq(pdfDoc, 1, saveLog[LastSaved].pages)]

\* C17 witness: the save after the first page fails, the save after the second
\* succeeds and the file holds both pages; the run goes on to the third
C17_Witness ==
    /\ pdfVariant = "incremental"
    /\ Len(pdfFiles) = 3
    /\ Len(saveLog) >= 2
    /\ ~saveLog[1].ok /\ saveLog[1].pages = 1
    /\ saveLog[2].ok /\ saveLog[2].pages = 2
    /\ Len(pdfFile.pages) >= 2
    /\ pdfFile.pages[1].image = pdfFiles[1]
    /\ pdfPc = "done"

====
